---- MODULE Spec2Model ----
(***************************************************************************)
(* A model of win32lfn.py, the long-file-name shim for Mercurial on        *)
(* Windows.  Paths are sequences of one-character strings, so that         *)
(* startswith, slicing, len and upper are computed as Python computes      *)
(* them.  The ntpath primitives the module calls (normpath, isabs, join,   *)
(* split) follow the CPython 3.9 library the module was tested with,       *)
(* restricted to the backslash separator.                                  *)
(***************************************************************************)
EXTENDS Integers, Sequences, FiniteSets, TLC

(* ------------------------------ bounds -------------------------------- *)
\* longest list of path segments in a generated path argument
MaxSegs == 2
\* deepest nesting of wrap1 wrappers around one primitive
MaxNest == 2
\* longest listing the native find-first/find-next iteration yields
MaxEntries == 2

(* --------------------------- text primitives -------------------------- *)
BS == "\\"

None == <<"None">>

startswith(s, pre) ==
    /\ Len(s) >= Len(pre)
    /\ SubSeq(s, 1, Len(pre)) = pre

endswith(s, suf) ==
    /\ Len(s) >= Len(suf)
    /\ SubSeq(s, Len(s) - Len(suf) + 1, Len(s)) = suf

\* s[n:] with a 0-based start, as Python slices
drop(s, n) == SubSeq(s, n + 1, Len(s))

\* s[:n]
take(s, n) == SubSeq(s, 1, n)

\* 1-based position of the first separator at or after position from, 0 if none
findsep(s, from) ==
    LET first(at) == IF at = {} THEN 0 ELSE CHOOSE i \in at : \A j \in at : i <= j
    IN first({i \in from..Len(s) : s[i] = BS})

\* str.upper() on one character
upperchar(c) ==
    CASE c = "a" -> "A" [] c = "b" -> "B" [] c = "c" -> "C" [] c = "l" -> "L"
      [] c = "m" -> "M" [] c = "n" -> "N" [] c = "o" -> "O" [] c = "p" -> "P"
      [] c = "r" -> "R" [] c = "t" -> "T" [] c = "u" -> "U" [] c = "x" -> "X"
      [] OTHER -> c

upper(s) == [i \in 1..Len(s) |-> upperchar(s[i])]

\* str.split(sep): the pieces between separators, empty pieces kept
RECURSIVE strsplit(_)
strsplit(s) ==
    LET cut(i) == IF i = 0 THEN <<s>>
                  ELSE <<take(s, i - 1)>> \o strsplit(drop(s, i))
    IN cut(findsep(s, 1))

\* sep.join(comps)
RECURSIVE sepjoin(_)
sepjoin(comps) ==
    IF comps = <<>> THEN <<>>
    ELSE IF Len(comps) = 1 THEN comps[1]
    ELSE comps[1] \o <<BS>> \o sepjoin(Tail(comps))

\* str.lstrip(sep)
RECURSIVE lstripsep(_)
lstripsep(s) ==
    IF s # <<>> /\ s[1] = BS THEN lstripsep(Tail(s)) ELSE s

\* str.rstrip(sep)
RECURSIVE rstripsep(_)
rstripsep(s) ==
    IF s # <<>> /\ s[Len(s)] = BS THEN rstripsep(take(s, Len(s) - 1)) ELSE s

(* ------------------------------ constants ----------------------------- *)
_uncprefix == <<BS, BS, "?", BS>>

_deviceprefix == <<BS, BS, ".", BS>>

_maxdirpath == 248

Digits == {"1", "2", "3", "4", "5", "6", "7", "8", "9"}

_WINDOWS_RESERVED_NAMES ==
    {<<"C", "O", "N">>, <<"P", "R", "N">>, <<"A", "U", "X">>, <<"N", "U", "L">>}
    \cup {<<"C", "O", "M", d>> : d \in Digits}
    \cup {<<"L", "P", "T", d>> : d \in Digits}

_INVALID_HANDLE_VALUE == -1

_BAN == {<<".">>, <<".", ".">>}

_ERROR_FILE_NOT_FOUND == 2

_ERROR_PATH_NOT_FOUND == 3

_ERROR_ALREADY_EXISTS == 183

ENOENT == 2

EEXIST == 17

\* the static table: native code -> portable errno
_errmap == (_ERROR_PATH_NOT_FOUND :> ENOENT) @@ (_ERROR_ALREADY_EXISTS :> EEXIST)

(* ------------------------- ntpath (CPython 3.9) ----------------------- *)
\* ntpath.splitdrive: <<drive, rest>>
splitdrive(p) ==
    LET share(index, index2) ==
            IF index2 = index + 1 THEN << <<>>, p >>
            ELSE IF index2 = 0 THEN << p, <<>> >>
            ELSE << take(p, index2 - 1), drop(p, index2 - 1) >>
        server(index) ==
            IF index = 0 THEN << <<>>, p >>
            ELSE share(index, findsep(p, index + 1))
    IN IF Len(p) >= 2
       THEN IF p[1] = BS /\ p[2] = BS /\ (Len(p) < 3 \/ p[3] # BS)
            THEN server(findsep(p, 3))
            ELSE IF p[2] = ":" THEN << take(p, 2), drop(p, 2) >>
            ELSE << <<>>, p >>
       ELSE << <<>>, p >>

\* ntpath.isabs
isabs(s) ==
    LET rooted(rest) == Len(rest) > 0 /\ rest[1] = BS
    IN startswith(s, _uncprefix) \/ rooted(splitdrive(s)[2])

\* the component loop of ntpath.normpath: out is comps[:i], the part kept
RECURSIVE normcomps(_, _, _)
normcomps(comps, out, rooted) ==
    IF comps = <<>> THEN out
    ELSE normcomps(Tail(comps),
                   IF Head(comps) = <<>> \/ Head(comps) = <<".">> THEN out
                   ELSE IF Head(comps) = <<".", ".">>
                   THEN IF out # <<>> /\ out[Len(out)] # <<".", ".">>
                        THEN take(out, Len(out) - 1)
                        ELSE IF out = <<>> /\ rooted THEN out
                        ELSE Append(out, Head(comps))
                   ELSE Append(out, Head(comps)),
                   rooted)

\* ntpath.normpath
normpath(path) ==
    LET result(prefix, comps) ==
            IF prefix = <<>> /\ comps = <<>> THEN <<".">>
            ELSE prefix \o sepjoin(comps)
        collapse(prefix, rest) ==
            result(prefix, normcomps(strsplit(rest), <<>>, endswith(prefix, <<BS>>)))
        parts(sd) ==
            IF startswith(sd[2], <<BS>>)
            THEN collapse(sd[1] \o <<BS>>, lstripsep(sd[2]))
            ELSE collapse(sd[1], sd[2])
    IN IF startswith(path, _deviceprefix) \/ startswith(path, _uncprefix)
       THEN path
       ELSE parts(splitdrive(path))

\* ntpath.join(path, p)
join(path, p) ==
    LET result(drive, rpath) ==
            IF /\ rpath # <<>> /\ rpath[1] # BS
               /\ drive # <<>> /\ drive[Len(drive)] # ":"
            THEN drive \o <<BS>> \o rpath
            ELSE drive \o rpath
        onto(r, q) ==
            IF q[2] # <<>> /\ q[2][1] = BS
            THEN result(IF q[1] # <<>> \/ r[1] = <<>> THEN q[1] ELSE r[1], q[2])
            ELSE IF q[1] # <<>> /\ q[1] # r[1] /\ upper(q[1]) # upper(r[1])
            THEN result(q[1], q[2])
            ELSE result(IF q[1] # <<>> /\ q[1] # r[1] THEN q[1] ELSE r[1],
                        (IF r[2] # <<>> /\ r[2][Len(r[2])] # BS
                         THEN r[2] \o <<BS>> ELSE r[2]) \o q[2])
    IN onto(splitdrive(path), splitdrive(p))

\* position of the last separator among the first i characters of p, 0 if none
lastsep(p, i) ==
    LET last(at) == IF at = {} THEN 0 ELSE CHOOSE k \in at : \A j \in at : j <= k
    IN last({k \in 1..i : p[k] = BS})

\* ntpath.split: <<head, tail>>
split(p) ==
    LET strip(head, stripped) == IF stripped = <<>> THEN head ELSE stripped
        parts(d, head, tail) == << d \o strip(head, rstripsep(head)), tail >>
        cut(sd, i) == parts(sd[1], take(sd[2], i), drop(sd[2], i))
        tail(sd) == cut(sd, lastsep(sd[2], Len(sd[2])))
    IN tail(splitdrive(p))

(* ---------------------------- Python values --------------------------- *)
PyStr(s) == [t |-> "str", s |-> s]

PyBytes(s) == [t |-> "bytes", s |-> s]

\* a value that is neither str nor bytes (an open file object, a number)
PyOther == [t |-> "int", s |-> <<"7">>]

\* bytes.decode('utf-8') on bytes, anything else passes through
bytestostring(string) ==
    IF string.t = "bytes" THEN [t |-> "str", s |-> string.s] ELSE string

\* str.encode() on str, anything else passes through
stringtobytes(string) ==
    IF string.t = "str" THEN [t |-> "bytes", s |-> string.s] ELSE string

(* ------------------------------- state -------------------------------- *)
VARIABLES
    hooked,   \* os.path.abspath, os.getcwd and os.chdir are bound to the wrappers
    oscwd,    \* the current directory the operating system reports
    _cwd,     \* the module global: None or the virtual current directory
    lastOk,   \* history: directory reached by the latest successful lfnchdir
    ret       \* the latest call: operation, arguments, outcome, native calls

vars == <<hooked, oscwd, _cwd, lastOk, ret>>

(* ----------------------------- file system ---------------------------- *)
LongSeg(k) == [i \in 1..k |-> "x"]

DriveRoot == <<"C", ":", BS>>

DirA == DriveRoot \o <<"a">>

\* two long directories under C:\a: absolute lengths _maxdirpath - 1 and _maxdirpath
LongNames == {LongSeg(_maxdirpath - 1 - Len(DirA) - 1), LongSeg(_maxdirpath - Len(DirA) - 1)}

UncRoot == <<BS, BS, "a", BS, "a", BS>>

\* the directories that exist
Dirs ==
    {DriveRoot, DirA, DirA \o <<BS, "b">>, UncRoot \o <<"a">>}
    \cup {DirA \o <<BS>> \o n : n \in LongNames}

\* the extended form of a native absolute path
Extended(d) ==
    IF startswith(d, <<BS, BS>>)
    THEN _uncprefix \o <<"U", "N", "C">> \o drop(d, 1)
    ELSE _uncprefix \o d

\* the extended-length marker removed: the native path an extended path names
unextended(path) ==
    IF startswith(path, _uncprefix \o <<"U", "N", "C", BS>>)
    THEN <<BS>> \o drop(path, Len(_uncprefix) + 3)
    ELSE IF startswith(path, _uncprefix) THEN drop(path, Len(_uncprefix))
    ELSE path

\* the directory the operating system resolves a path to: extended paths are
\* taken literally, device paths name no directory of this file system, every
\* other path is made absolute and normalized
osresolve(cwd, path) ==
    LET literal(real) == IF Extended(real) = path THEN real ELSE None
    IN IF startswith(path, _uncprefix) THEN literal(unextended(path))
       ELSE IF startswith(path, _deviceprefix) THEN None
       ELSE normpath(join(unextended(cwd), path))

\* os.path.exists
exists(cwd, path) == osresolve(cwd, path) \in Dirs

(* ------------------------ the path pipeline --------------------------- *)
Truthy(v) == v # None /\ v # <<>>

\* lfngetcwd ignoring the virtual current directory
lfngetcwd_native(cwd, native) == native

\* wrapgetcwd.lfngetcwd: cwd is the module global, native the wrapped getcwd()
lfngetcwd(cwd, native) ==
    IF Truthy(cwd) THEN cwd ELSE native

\* os.getcwd() as the module's functions see it
os_getcwd(cwd, native) ==
    IF hooked THEN lfngetcwd(cwd, native) ELSE native

\* wrapabspath.lfnabspath, with getcwd the value os.getcwd() returns
lfnabspath(getcwd, path) ==
    LET resolve(result) ==
            IF ~isabs(result)
            THEN IF result = <<".">> THEN getcwd
                 ELSE IF result = <<".", ".">> THEN split(getcwd)[1]
                 ELSE join(getcwd, result)
            ELSE result
    IN resolve(normpath(path))

\* ntpath.abspath
nt_abspath(getcwd, path) ==
    normpath(IF ~isabs(path) THEN join(getcwd, path) ELSE path)

\* os.path.abspath as the module's functions see it
os_path_abspath(getcwd, path) ==
    IF hooked THEN lfnabspath(getcwd, path) ELSE nt_abspath(getcwd, path)

\* uncabspath without the tests for an already encoded path
uncabspath_text_reencode(getcwd, path) ==
    LET encode(abs) ==
            IF startswith(abs, <<BS, BS>>) /\ ~startswith(abs, _uncprefix)
            THEN _uncprefix \o <<"U", "N", "C">> \o drop(abs, 1)
            ELSE _uncprefix \o abs
    IN IF /\ ~startswith(path, _deviceprefix)
          /\ upper(path) \notin _WINDOWS_RESERVED_NAMES
       THEN encode(os_path_abspath(getcwd, path))
       ELSE path

\* uncabspath keeping both leading separators of a network path
uncabspath_text_keepsep(getcwd, path) ==
    LET encode(abs) ==
            IF ~startswith(abs, _uncprefix)
            THEN IF startswith(abs, <<BS, BS>>)
                 THEN _uncprefix \o <<"U", "N", "C">> \o abs
                 ELSE _uncprefix \o abs
            ELSE abs
    IN IF /\ ~startswith(path, _uncprefix)
          /\ ~startswith(path, _deviceprefix)
          /\ upper(path) \notin _WINDOWS_RESERVED_NAMES
       THEN encode(os_path_abspath(getcwd, path))
       ELSE path

\* uncabspath comparing the reserved names case-sensitively
uncabspath_text_exactcase(getcwd, path) ==
    LET encode(abs) ==
            IF ~startswith(abs, _uncprefix)
            THEN IF startswith(abs, <<BS, BS>>)
                 THEN _uncprefix \o <<"U", "N", "C">> \o drop(abs, 1)
                 ELSE _uncprefix \o abs
            ELSE abs
    IN IF /\ ~startswith(path, _uncprefix)
          /\ ~startswith(path, _deviceprefix)
          /\ path \notin _WINDOWS_RESERVED_NAMES
       THEN encode(os_path_abspath(getcwd, path))
       ELSE path

\* uncabspath, lines 100-112, on text
uncabspath_text(getcwd, path) ==
    LET encode(abs) ==
            IF ~startswith(abs, _uncprefix)
            THEN IF startswith(abs, <<BS, BS>>)
                 THEN _uncprefix \o <<"U", "N", "C">> \o drop(abs, 1)
                 ELSE _uncprefix \o abs
            ELSE abs
    IN IF /\ ~startswith(path, _uncprefix)
          /\ ~startswith(path, _deviceprefix)
          /\ upper(path) \notin _WINDOWS_RESERVED_NAMES
       THEN encode(os_path_abspath(getcwd, path))
       ELSE path

\* uncabspath: the outcome is a TypeError or the text returned
uncabspath(getcwd, path) ==
    LET check(p) ==
            IF p.t # "str" THEN [exc |-> "TypeError", val |-> p]
            ELSE [exc |-> "none", val |-> PyStr(uncabspath_text(getcwd, p.s))]
    IN check(bytestostring(path))

(* ------------------------------- inputs ------------------------------- *)
Segs == {<<".">>, <<".", ".">>, <<"a">>, <<"n", "u", "l">>}

SegSeqs == UNION {[1..k -> Segs] : k \in 0..MaxSegs}

Prefixes ==
    { <<>>, <<BS>>, <<BS, BS>>, <<"C", ":">>, DriveRoot, UncRoot,
      _uncprefix, _uncprefix \o DriveRoot,
      _uncprefix \o <<"U", "N", "C">> \o drop(UncRoot, 1),
      _deviceprefix }

\* generated path arguments: a prefix, some segments, an optional trailing separator
PathInputs ==
    {pre \o sepjoin(ss) \o t : pre \in Prefixes, ss \in SegSeqs, t \in {<<>>, <<BS>>}}

lowerchar(c) ==
    CASE c = "A" -> "a" [] c = "C" -> "c" [] c = "L" -> "l" [] c = "M" -> "m"
      [] c = "N" -> "n" [] c = "O" -> "o" [] c = "P" -> "p" [] c = "R" -> "r"
      [] c = "T" -> "t" [] c = "U" -> "u" [] c = "X" -> "x"
      [] OTHER -> c

\* every reserved device name in every letter case
ReservedInputs ==
    {[i \in 1..Len(n) |-> IF i \in low THEN lowerchar(n[i]) ELSE n[i]] :
        n \in _WINDOWS_RESERVED_NAMES, low \in SUBSET (1..4)}

TextInputs == PathInputs \cup ReservedInputs

\* path arguments handed to the wrapped primitives
WrapTexts ==
    { <<"a">>, <<".", ".", BS, "a">>, DirA, UncRoot \o <<"a">>,
      _uncprefix \o DirA, <<"n", "u", "l">> }

WrapInputs == {PyStr(s) : s \in WrapTexts} \cup {PyBytes(s) : s \in WrapTexts} \cup {PyOther}

\* arguments of uncabspath: text, bytes, and a value that is neither
PyInputs == {PyStr(s) : s \in TextInputs} \cup WrapInputs

\* path arguments of lfnmkdir and lfnlistdir
NativeInputs == {PyStr(DirA \o <<BS, "b">>), PyBytes(<<"a">>), PyStr(<<BS, BS, "a", BS, "a", BS, "f">>), PyOther}

\* the positional arguments after the path arguments, and the keyword arguments
RestArgs == {<<>>, << [t |-> "int", s |-> <<"m">>] >>}

KwArgs == {<<>>, << [key |-> "mode", value |-> [t |-> "str", s |-> <<"r">>]] >>}

\* targets of lfnchdir: the generated paths and the directories that exist,
\* each named absolutely, in extended form and relative to C:\a
ChdirInputs ==
    PathInputs
    \cup Dirs
    \cup {Extended(d) : d \in Dirs}
    \cup {drop(d, Len(DirA) + 1) : d \in {e \in Dirs : startswith(e, DirA \o <<BS>>)}}

\* native error codes GetLastError may report
\* (5 is ERROR_ACCESS_DENIED, a code the module does not name)
NativeErrors ==
    {_ERROR_FILE_NOT_FOUND, _ERROR_PATH_NOT_FOUND, 5, _ERROR_ALREADY_EXISTS}

\* listings the native iteration may yield: "." and ".." first (absent in a
\* drive root), then up to MaxEntries names
Names == {<<"f">>, <<"g">>}

Listings ==
    {pre \o names :
        pre \in {<<>>, << <<".">>, <<".", ".">> >>},
        names \in UNION {[1..k -> Names] : k \in 0..MaxEntries}} \ {<<>>}

(* ------------------------------ outcomes ------------------------------ *)
Blank ==
    [op |-> "none", args |-> <<>>, kw |-> <<>>, cwd |-> None, exc |-> "none",
     code |-> 0, val |-> None, calls |-> <<>>, log |-> <<>>,
     warned |-> FALSE, chdirs |-> FALSE, before |-> None, native |-> <<>>]

(* ------------------------------- actions ------------------------------ *)
Init ==
    /\ hooked \in BOOLEAN
    /\ oscwd \in {DriveRoot, DirA}
    /\ _cwd = None
    /\ lastOk = None
    /\ ret = Blank

\* a call of uncabspath(path)
CallUncabspath(path) ==
    LET getcwd == os_getcwd(_cwd, oscwd)
        r == uncabspath(getcwd, path)
    IN /\ ret' = [Blank EXCEPT !.op = "uncabspath", !.args = <<path>>,
                               !.cwd = getcwd, !.exc = r.exc, !.val = r.val]
       /\ UNCHANGED <<hooked, oscwd, _cwd, lastOk>>

\* a call of lfnabspath(path)
CallLfnabspath(path) ==
    LET getcwd == os_getcwd(_cwd, oscwd)
    IN /\ ret' = [Blank EXCEPT !.op = "lfnabspath", !.args = <<PyStr(path)>>,
                               !.cwd = getcwd, !.val = lfnabspath(getcwd, path)]
       /\ UNCHANGED <<hooked, oscwd, _cwd, lastOk>>

\* a call of lfngetcwd()
CallLfngetcwd ==
    /\ ret' = [Blank EXCEPT !.op = "lfngetcwd", !.val = lfngetcwd(_cwd, oscwd)]
    /\ UNCHANGED <<hooked, oscwd, _cwd, lastOk>>

(* --------------------------- interception ----------------------------- *)
\* wrap1(method) nested depth times around method: the outcome and the calls
\* that reach method
RECURSIVE wrap1(_, _, _, _)
wrap1(depth, getcwd, args, kw) ==
    LET r == uncabspath(getcwd, args[1]) IN
    IF r.exc # "none" THEN [exc |-> r.exc, calls |-> <<>>]
    ELSE LET fwd == <<stringtobytes(r.val)>> \o Tail(args) IN
         IF depth = 1 THEN [exc |-> "none", calls |-> << [args |-> fwd, kw |-> kw] >>]
         ELSE wrap1(depth - 1, getcwd, fwd, kw)

RECURSIVE wrap2(_, _, _, _)
\* wrap2 encoding the source path twice
wrap2_srctwice(depth, getcwd, args, kw) ==
    LET src == uncabspath(getcwd, args[1]) IN
    IF src.exc # "none" THEN [exc |-> src.exc, calls |-> <<>>]
    ELSE LET dst == uncabspath(getcwd, args[1]) IN
         LET fwd == <<stringtobytes(src.val), stringtobytes(dst.val)>> \o drop(args, 2) IN
         IF depth = 1 THEN [exc |-> "none", calls |-> << [args |-> fwd, kw |-> kw] >>]
         ELSE wrap2(depth - 1, getcwd, fwd, kw)

\* wrap2(method) nested depth times around method
wrap2(depth, getcwd, args, kw) ==
    LET src == uncabspath(getcwd, args[1]) IN
    IF src.exc # "none" THEN [exc |-> src.exc, calls |-> <<>>]
    ELSE LET dst == uncabspath(getcwd, args[2]) IN
         IF dst.exc # "none" THEN [exc |-> dst.exc, calls |-> <<>>]
         ELSE LET fwd == <<stringtobytes(src.val), stringtobytes(dst.val)>> \o drop(args, 2) IN
              IF depth = 1 THEN [exc |-> "none", calls |-> << [args |-> fwd, kw |-> kw] >>]
              ELSE wrap2(depth - 1, getcwd, fwd, kw)

\* a call of a primitive wrapped by wrap1
CallWrap1(depth, args, kw) ==
    LET getcwd == os_getcwd(_cwd, oscwd)
        r == wrap1(depth, getcwd, args, kw)
    IN /\ ret' = [Blank EXCEPT !.op = "wrap1", !.args = args, !.kw = kw, !.cwd = getcwd,
                               !.exc = r.exc, !.calls = r.calls, !.code = depth]
       /\ UNCHANGED <<hooked, oscwd, _cwd, lastOk>>

\* a call of a primitive wrapped by wrap2
CallWrap2(depth, args, kw) ==
    LET getcwd == os_getcwd(_cwd, oscwd)
        r == wrap2(depth, getcwd, args, kw)
    IN /\ ret' = [Blank EXCEPT !.op = "wrap2", !.args = args, !.kw = kw, !.cwd = getcwd,
                               !.exc = r.exc, !.calls = r.calls, !.code = depth]
       /\ UNCHANGED <<hooked, oscwd, _cwd, lastOk>>

(* --------------------------- directory creation ----------------------- *)
\* lines 193-195: the failure raised for a native error code
mkdir_failure(error) ==
    IF error \in DOMAIN _errmap
    THEN [exc |-> "OSError", code |-> _errmap[error]]
    ELSE [exc |-> "KeyError", code |-> error]

\* lfnmkdir(path): created is what CreateDirectory returns, lasterr what
\* GetLastError reports after a failure
lfnmkdir(path, created, lasterr) ==
    LET getcwd == os_getcwd(_cwd, oscwd)
        r == uncabspath(getcwd, path)
        f == mkdir_failure(lasterr)
        base == [Blank EXCEPT !.op = "lfnmkdir", !.args = <<path>>, !.cwd = getcwd]
    IN /\ ret' = IF r.exc # "none" THEN [base EXCEPT !.exc = r.exc]
                 ELSE IF created # 0
                 THEN [base EXCEPT !.val = r.val, !.native = <<created>>,
                                   !.log = << [fn |-> "CreateDirectory", h |-> 0] >>]
                 ELSE [base EXCEPT !.val = r.val, !.native = <<created, lasterr>>,
                                   !.exc = f.exc, !.code = f.code,
                                   !.log = << [fn |-> "CreateDirectory", h |-> 0],
                                              [fn |-> "GetLastError", h |-> 0] >>]
       /\ UNCHANGED <<hooked, oscwd, _cwd, lastOk>>

(* --------------------------- directory listing ------------------------ *)
\* Python ==: values of different types are never equal
PyEq(a, b) == a.t = b.t /\ a.s = b.s

\* WIN32_FIND_DATAA.cFileName after the i-th native step: bytes, empty in the
\* zero-initialised structure an unsuccessful FindFirstFile leaves behind
cFileName(found, i, fldr) ==
    IF fldr = _INVALID_HANDLE_VALUE THEN PyBytes(<<>>) ELSE PyBytes(found[i])

RECURSIVE findloop(_, _, _, _, _, _)
\* the loop closing the handle on its return only, not in a finally clause
findloop_nofinally(found, i, result, log, fldr, failAt) ==
    LET out == cFileName(found, i, fldr)
        close == [fn |-> "FindClose", h |-> fldr]
    IN IF failAt = i
       THEN [exc |-> "KeyboardInterrupt", val |-> result, log |-> log]
       ELSE LET result2 == IF ~PyEq(out, PyStr(<<".", ".">>)) /\ ~PyEq(out, PyStr(<<".">>))
                           THEN Append(result, out) ELSE result
                log2 == Append(log, [fn |-> "FindNextFile", h |-> fldr])
            IN IF fldr # _INVALID_HANDLE_VALUE /\ i < Len(found)
               THEN findloop(found, i + 1, result2, log2, fldr, failAt)
               ELSE [exc |-> "none", val |-> result2, log |-> Append(log2, close)]

\* lines 170-177: the loop and its finally clause.  failAt is the iteration
\* at which an exception interrupts the loop, 0 for none
findloop(found, i, result, log, fldr, failAt) ==
    LET out == cFileName(found, i, fldr)
        close == [fn |-> "FindClose", h |-> fldr]
    IN IF failAt = i
       THEN [exc |-> "KeyboardInterrupt", val |-> result, log |-> Append(log, close)]
       ELSE LET result2 == IF ~PyEq(out, PyStr(<<".", ".">>)) /\ ~PyEq(out, PyStr(<<".">>))
                           THEN Append(result, out) ELSE result
                log2 == Append(log, [fn |-> "FindNextFile", h |-> fldr])
            IN IF fldr # _INVALID_HANDLE_VALUE /\ i < Len(found)
               THEN findloop(found, i + 1, result2, log2, fldr, failAt)
               ELSE [exc |-> "none", val |-> result2, log |-> Append(log2, close)]

\* lfnlistdir(path): fldr is what FindFirstFile returns, lasterr what
\* GetLastError reports after a failure, found the names the iteration yields
lfnlistdir(path, fldr, lasterr, found, failAt) ==
    LET getcwd == os_getcwd(_cwd, oscwd)
        r == uncabspath(getcwd, path)
        base == [Blank EXCEPT !.op = "lfnlistdir", !.args = <<path>>, !.cwd = getcwd,
                              !.native = <<fldr, lasterr, found>>]
        open == << [fn |-> "FindFirstFile", h |-> fldr] >>
        geterr == Append(open, [fn |-> "GetLastError", h |-> fldr])
        l == findloop(found, 1, <<>>,
                      IF fldr = _INVALID_HANDLE_VALUE THEN geterr ELSE open, fldr, failAt)
    IN /\ ret' = IF r.exc # "none" THEN [base EXCEPT !.exc = r.exc]
                 ELSE IF /\ fldr = _INVALID_HANDLE_VALUE
                         /\ lasterr # _ERROR_PATH_NOT_FOUND
                         /\ lasterr # _ERROR_FILE_NOT_FOUND
                 THEN [base EXCEPT !.exc = "ValueError", !.val = r.val,
                                   !.code = lasterr, !.log = geterr]
                 ELSE [base EXCEPT !.exc = l.exc, !.val = l.val, !.log = l.log]
       /\ UNCHANGED <<hooked, oscwd, _cwd, lastOk>>

(* --------------------------- current directory ------------------------ *)
\* the native os.chdir: the directory reported afterwards, None when the
\* target does not exist (the call raises OSError ENOENT)
os_chdir(cwd, path) ==
    IF osresolve(cwd, path) \notin Dirs THEN None
    ELSE osresolve(cwd, path)

\* wrapchdir.lfnchdir(path)
lfnchdir(path) ==
    LET getcwd == os_getcwd(_cwd, oscwd)
        abs == os_path_abspath(getcwd, path)
        long == Len(abs) >= _maxdirpath
        moved == IF long THEN oscwd ELSE os_chdir(oscwd, abs)
        getcwd2 == os_getcwd(_cwd, moved)
        unc == uncabspath_text(getcwd2, abs)
        base == [Blank EXCEPT !.op = "lfnchdir", !.args = <<PyStr(path)>>, !.cwd = getcwd,
                              !.before = _cwd, !.warned = long, !.chdirs = ~long]
    IN IF moved = None
       THEN /\ ret' = [base EXCEPT !.exc = "OSError", !.code = ENOENT, !.val = abs]
            /\ UNCHANGED <<hooked, oscwd, _cwd, lastOk>>
       ELSE /\ oscwd' = moved
            /\ IF exists(moved, unc)
               THEN /\ _cwd' = unc
                    /\ lastOk' = osresolve(getcwd, path)
                    /\ ret' = [base EXCEPT !.val = unc]
               ELSE /\ ret' = [base EXCEPT !.exc = "OSError", !.code = ENOENT, !.val = unc]
                    /\ UNCHANGED <<_cwd, lastOk>>
            /\ UNCHANGED hooked

(* ---------------------------- specification --------------------------- *)
\* the caller takes the outcome of its latest call and goes on
Continue ==
    /\ ret.op # "none"
    /\ ret' = Blank
    /\ UNCHANGED <<hooked, oscwd, _cwd, lastOk>>

\* the module is synchronous and single-threaded: a call is made by a
\* caller that holds no outcome
Idle == ret.op = "none"

Next ==
    \/ Idle /\ \E path \in PyInputs : CallUncabspath(path)
    \/ Idle /\ \E path \in PathInputs : CallLfnabspath(path)
    \/ Idle /\ CallLfngetcwd
    \/ Idle /\ \E depth \in 1..MaxNest, p \in WrapInputs, rest \in RestArgs, kw \in KwArgs :
                  CallWrap1(depth, <<p>> \o rest, kw)
    \/ Idle /\ \E depth \in 1..MaxNest, p \in WrapInputs, q \in WrapInputs,
                  rest \in RestArgs, kw \in KwArgs :
                  /\ (rest = <<>>) = (kw = <<>>)
                  /\ CallWrap2(depth, <<p, q>> \o rest, kw)
    \/ Idle /\ \E path \in NativeInputs, created \in {0, 1}, lasterr \in NativeErrors :
                  lfnmkdir(path, created, lasterr)
    \/ Idle /\ \E path \in NativeInputs, found \in Listings, failAt \in 0..(MaxEntries + 2) :
                  /\ failAt <= Len(found)
                  /\ lfnlistdir(path, 7, 0, found, failAt)
    \/ Idle /\ \E path \in NativeInputs, lasterr \in NativeErrors \ {_ERROR_ALREADY_EXISTS},
                  failAt \in {0, 1} :
                  lfnlistdir(path, _INVALID_HANDLE_VALUE, lasterr, <<>>, failAt)
    \/ Idle /\ \E path \in ChdirInputs : lfnchdir(path)
    \/ Continue

Spec == Init /\ [][Next]_vars

(* ------------------------------ properties ---------------------------- *)
IsText(v) == v.t \in {"str", "bytes"}

IsReserved(s) == upper(s) \in _WINDOWS_RESERVED_NAMES

\* the number of places at which the extended-length marker occurs in s
Markers(s) ==
    Cardinality({i \in 1..Len(s) : startswith(drop(s, i - 1), _uncprefix)})

C2_JoinNormalized ==
    (/\ ret.op = "lfnabspath"
     /\ ~isabs(ret.args[1].s)
     /\ ret.args[1].s \notin {<<".">>, <<".", ".">>})
    => ret.val = normpath(join(ret.cwd, ret.args[1].s))

\* C3: when CreateDirectory fails, a code of the table reaches the caller as
\* OSError with the mapped errno, any other code as OSError with the native
\* code itself
C3_UnmappedCode ==
    (ret.op = "lfnmkdir" /\ Len(ret.native) = 2) =>
        /\ ret.exc = "OSError"
        /\ ret.code = IF ret.native[2] \in DOMAIN _errmap
                      THEN _errmap[ret.native[2]] ELSE ret.native[2]

NotFound(error) == error \in {_ERROR_FILE_NOT_FOUND, _ERROR_PATH_NOT_FOUND}

Unbanned(name) == name \notin _BAN

\* C4: lfnlistdir returns the names the iteration yields, in order, without
\* "." and "..", and the empty list, without a failure, when the open call
\* fails with not-found
C4_Listing ==
    (ret.op = "lfnlistdir" /\ IsText(ret.args[1]) /\ ret.exc # "KeyboardInterrupt") =>
        IF ret.native[1] # _INVALID_HANDLE_VALUE
        THEN /\ ret.exc = "none"
             /\ [i \in 1..Len(ret.val) |-> ret.val[i].s] = SelectSeq(ret.native[3], Unbanned)
        ELSE NotFound(ret.native[2]) => ret.exc = "none" /\ ret.val = <<>>

RealAbs(cwd, path) ==
    IF startswith(path, _uncprefix) THEN unextended(path)
    ELSE normpath(join(unextended(cwd), path))

\* C6: lfnchdir changes the real current directory exactly when the real,
\* non-extended absolute form of the target is shorter than _maxdirpath, and
\* warns exactly when it is not
C6_RealChdir ==
    ret.op = "lfnchdir" =>
        /\ ret.chdirs <=> Len(RealAbs(ret.cwd, ret.args[1].s)) < _maxdirpath
        /\ ret.warned <=> Len(RealAbs(ret.cwd, ret.args[1].s)) >= _maxdirpath

\* a normalized absolute path: a drive or share, a root, nothing to collapse
NormAbs(p) == isabs(p) /\ normpath(p) = p /\ splitdrive(p)[1] # <<>>

\* C7 as stated: every normalized absolute path that is neither already
\* encoded nor a reserved name is encoded as marker + UNC + p[1:] when it
\* begins with two separators and as marker + p otherwise
C7_EncodeAll ==
    (/\ ret.op = "uncabspath" /\ IsText(ret.args[1])
     /\ NormAbs(ret.args[1].s)
     /\ ~startswith(ret.args[1].s, _uncprefix)
     /\ ~IsReserved(ret.args[1].s))
    => ret.val.s = Extended(ret.args[1].s)

\* C7: every normalized absolute path that is neither already encoded, nor a
\* device path (\\.\), nor a reserved name is encoded as marker + UNC + p[1:]
\* when it begins with two separators and as marker + p otherwise
C7_Encode ==
    (/\ ret.op = "uncabspath" /\ IsText(ret.args[1])
     /\ NormAbs(ret.args[1].s)
     /\ ~startswith(ret.args[1].s, _uncprefix)
     /\ ~startswith(ret.args[1].s, _deviceprefix)
     /\ ~IsReserved(ret.args[1].s))
    => ret.val.s = Extended(ret.args[1].s)

C7_Witness ==
    /\ ret.op = "uncabspath"
    /\ ret.args[1].s = UncRoot \o <<"a">>
    /\ ret.val.s = _uncprefix \o <<"U", "N", "C", BS, "a", BS, "a", BS, "a">>

\* C8: a reserved device name, in any letter case, is returned unchanged
\* whatever the current directory is
C8_Reserved ==
    (ret.op = "uncabspath" /\ IsText(ret.args[1]) /\ IsReserved(ret.args[1].s))
    => ret.exc = "none" /\ ret.val.s = ret.args[1].s

C8_Witness ==
    /\ ret.op = "uncabspath"
    /\ ret.args[1].s = <<"c", "O", "m", "1">>
    /\ ret.val.s = <<"c", "O", "m", "1">>
    /\ _cwd # None

C10_Handle ==
    (ret.op = "lfnlistdir" /\ IsText(ret.args[1])) =>
        LET fldr == ret.native[1]
            closes == {i \in 1..Len(ret.log) : ret.log[i].fn = "FindClose"}
        IN /\ \A i \in closes : \A j \in (i + 1)..Len(ret.log) :
                    ret.log[j].fn # "FindNextFile"
           /\ (fldr # _INVALID_HANDLE_VALUE \/ NotFound(ret.native[2])) =>
                 /\ closes = {Len(ret.log)}
                 /\ ret.log[Len(ret.log)].h = fldr
           /\ (fldr = _INVALID_HANDLE_VALUE /\ ~NotFound(ret.native[2])) =>
                 /\ ret.exc = "ValueError"
                 /\ ret.code = ret.native[2]
                 /\ ret.val = uncabspath(ret.cwd, ret.args[1]).val

C10_Witness ==
    /\ ret.op = "lfnlistdir" /\ ret.exc = "KeyboardInterrupt"
    /\ ret.native[1] # _INVALID_HANDLE_VALUE
    /\ Len(ret.log) > 2

====
